---- MODULE Spec2Model ----
(***************************************************************************)
(* pypwrctrl command line front end (src/pypwrctrl/main.py).               *)
(*                                                                         *)
(* One run of main(): the configuration file is read, the options and the  *)
(* command are parsed, a PlugMaster is created, populated from the         *)
(* configuration or by discovery, and the command handler runs.            *)
(*                                                                         *)
(* Text is a sequence of one-character strings, so that the regular        *)
(* expression of load_devices, int(), str(), the whitespace stripping and   *)
(* the %-interpolation of ConfigParser are computed character by character.*)
(***************************************************************************)
EXTENDS Integers, Sequences, FiniteSets, TLC

VARIABLES
    file,       \* content of CONFIG_FILE: sequence of sections (<<>>: no file)
    pc,         \* position of main(): start, parsed, master, loaded, populated, done
    config,     \* the ConfigParser filled by config.read (line 171)
    options,    \* parsed options (line 204)
    command,    \* args[0], "" when there is none
    rest,       \* args[1:]
    master,     \* the PlugMaster (line 229)
    rc,         \* exit status of the process, -1 while running
    exc,        \* the uncaught exception, "none" when there is none
    out,        \* lines printed, in order
    events,     \* load / discover / handler / write, in order
    switched,   \* the plugs Plug.switch was invoked on, as <<device, plug>> positions
    resets,     \* the devices Device.reset was invoked on, as positions
    created     \* the arguments of the create_device calls of load_devices, in order

vars == <<file, pc, config, options, command, rest, master, rc, exc, out,
          events, switched, resets, created>>

(***************************************************************************)
(* Bounds                                                                  *)
(***************************************************************************)
MaxArgs == 3    \* command arguments after the command name
MaxOpts == 2    \* plug-like keys of a device section (codec specification)

(***************************************************************************)
(* Text                                                                    *)
(***************************************************************************)
Digits == <<"0", "1", "2", "3", "4", "5", "6", "7", "8", "9">>

IsDigit(c) == \E i \in 1..Len(Digits) : Digits[i] = c

DigitVal(c) == (CHOOSE i \in 1..Len(Digits) : Digits[i] = c) - 1

StartsWith(s, p) == Len(s) >= Len(p) /\ SubSeq(s, 1, Len(p)) = p

\* str.lower() on the letters the model uses
LowerChar(c) ==
    CASE c = "A" -> "a" [] c = "D" -> "d" [] c = "E" -> "e" [] c = "F" -> "f"
      [] c = "G" -> "g" [] c = "L" -> "l" [] c = "N" -> "n" [] c = "O" -> "o"
      [] c = "P" -> "p" [] c = "R" -> "r" [] c = "S" -> "s" [] OTHER -> c

Lower(s) == [i \in 1..Len(s) |-> LowerChar(s[i])]

\* str.strip() for the blank
RECURSIVE LStrip(_)
LStrip(s) == IF s # <<>> /\ Head(s) = " " THEN LStrip(Tail(s)) ELSE s

RECURSIVE RStrip(_)
RStrip(s) ==
    IF s # <<>> /\ s[Len(s)] = " " THEN RStrip(SubSeq(s, 1, Len(s) - 1)) ELSE s

Strip(s) == RStrip(LStrip(s))

\* int(text): defined for a non-empty run of decimal digits
IntOK(s) == s # <<>> /\ \A i \in 1..Len(s) : IsDigit(s[i])

RECURSIVE IntVal(_)
IntVal(s) ==
    IF s = <<>> THEN 0
    ELSE IntVal(SubSeq(s, 1, Len(s) - 1)) * 10 + DigitVal(s[Len(s)])

\* str(n) for n >= 0
RECURSIVE StrInt(_)
StrInt(n) ==
    IF n < 10 THEN <<Digits[n + 1]>>
    ELSE StrInt(n \div 10) \o <<Digits[(n % 10) + 1]>>

(***************************************************************************)
(* Program constants                                                       *)
(***************************************************************************)
GENERAL_SECTION == <<"G", "E", "N", "E", "R", "A", "L">>
PLUG_PREFIX == <<"p", "l", "u", "g", "_">>

K_name == <<"n", "a", "m", "e">>
K_user == <<"u", "s", "e", "r">>
K_password == <<"p", "a", "s", "s", "w", "o", "r", "d">>
K_pin == <<"p", "i", "n">>
K_pout == <<"p", "o", "u", "t">>

FallbackUser == <<"a", "d", "m", "i", "n">>
FallbackPassword == <<"a", "n", "e", "l">>
FallbackPin == 75
FallbackPout == 77

(***************************************************************************)
(* ConfigParser, as main.py uses it                                        *)
(***************************************************************************)
\* config.read: keys are lower-cased (optionxform), values are stripped.
ConfigRead(f) ==
    [i \in 1..Len(f) |->
        [sname |-> f[i].sname,
         opts |-> [j \in 1..Len(f[i].opts) |->
                     [key |-> Lower(f[i].opts[j].key),
                      value |-> Strip(f[i].opts[j].raw)]]]]

\* parser.write: "key = value" lines, one section after the other.
ConfigWrite(parser) ==
    [i \in 1..Len(parser) |->
        [sname |-> parser[i].sname,
         opts |-> [j \in 1..Len(parser[i].opts) |->
                     [key |-> parser[i].opts[j].key,
                      raw |-> parser[i].opts[j].value]]]]

HasSection(cfg, section) == \E i \in 1..Len(cfg) : cfg[i].sname = section

SectionOf(cfg, section) == cfg[CHOOSE i \in 1..Len(cfg) : cfg[i].sname = section]

\* config.has_option(section, option)
HasOption(cfg, section, option) ==
    /\ HasSection(cfg, section)
    /\ \E j \in 1..Len(SectionOf(cfg, section).opts) :
          SectionOf(cfg, section).opts[j].key = option

\* the stored (uninterpolated) value of an option
RawGet(cfg, section, option) ==
    LET o == SectionOf(cfg, section).opts
    IN  o[CHOOSE j \in 1..Len(o) : o[j].key = option].value

\* BasicInterpolation.before_get: "%%" reads as "%", any other "%" is an
\* InterpolationSyntaxError ("%(" references are outside the alphabet).
RECURSIVE InterpOK(_)
InterpOK(v) ==
    IF v = <<>> THEN TRUE
    ELSE IF Head(v) # "%" THEN InterpOK(Tail(v))
    ELSE Len(v) >= 2 /\ v[2] = "%" /\ InterpOK(SubSeq(v, 3, Len(v)))

RECURSIVE Interp(_)
Interp(v) ==
    IF v = <<>> THEN <<>>
    ELSE IF Head(v) # "%" THEN <<Head(v)>> \o Interp(Tail(v))
    ELSE <<"%">> \o Interp(SubSeq(v, 3, Len(v)))

\* BasicInterpolation.before_set: value.replace("%%", "") must hold no "%",
\* or parser.set raises ValueError.
RECURSIVE DropDoubled(_)
DropDoubled(v) ==
    IF v = <<>> THEN <<>>
    ELSE IF Len(v) >= 2 /\ v[1] = "%" /\ v[2] = "%" THEN DropDoubled(SubSeq(v, 3, Len(v)))
    ELSE <<Head(v)>> \o DropDoubled(Tail(v))

SetOK(v) == \A i \in 1..Len(DropDoubled(v)) : DropDoubled(v)[i] # "%"

(***************************************************************************)
(* load_devices                                                            *)
(***************************************************************************)
\* re.match(PLUG_PREFIX + '\d+', option): anchored at the start only.
PlugKeyMatch(option) ==
    /\ StartsWith(option, PLUG_PREFIX)
    /\ Len(option) > Len(PLUG_PREFIX)
    /\ IsDigit(option[Len(PLUG_PREFIX) + 1])

\* option[len(PLUG_PREFIX):]
KeySuffix(option) == SubSeq(option, Len(PLUG_PREFIX) + 1, Len(option))

RECURSIVE InsertSorted(_, _)
InsertSorted(plugs, p) ==
    IF plugs = <<>> THEN <<p>>
    ELSE IF p.index < Head(plugs).index THEN <<p>> \o plugs
    ELSE <<Head(plugs)>> \o InsertSorted(Tail(plugs), p)

\* plugs.append((index, pname))
AppendPlug(plugs, p) == Append(plugs, p)

\* the loop over config.options(section)
RECURSIVE LoadPlugs(_, _)
LoadPlugs(opts, plugs) ==
    IF opts = <<>> THEN [exc |-> "none", plugs |-> plugs]
    ELSE LET o == Head(opts) IN
         IF ~PlugKeyMatch(o.key) THEN LoadPlugs(Tail(opts), plugs)
         ELSE IF ~IntOK(KeySuffix(o.key))
              THEN [exc |-> "ValueError", plugs |-> plugs]
         ELSE IF ~InterpOK(o.value)
              THEN [exc |-> "InterpolationSyntaxError", plugs |-> plugs]
         ELSE LoadPlugs(Tail(opts),
                        AppendPlug(plugs, [index |-> IntVal(KeySuffix(o.key)),
                                           name |-> Interp(o.value)]))

\* the loop over config.sections(): the arguments of the create_device
\* calls made, the number of sections skipped with the diagnostic, and the
\* exception that ended the loop, if any.
RECURSIVE LoadSections(_, _)
LoadSections(sections, acc) ==
    IF sections = <<>> THEN acc
    ELSE LET s == Head(sections) IN
         IF s.sname = GENERAL_SECTION THEN LoadSections(Tail(sections), acc)
         ELSE IF ~\E j \in 1..Len(s.opts) : s.opts[j].key = K_name
              THEN LoadSections(Tail(sections),
                                [acc EXCEPT !.skipped = acc.skipped + 1])
         ELSE LET nm == s.opts[CHOOSE j \in 1..Len(s.opts) : s.opts[j].key = K_name].value
                  pl == LoadPlugs(s.opts, <<>>)
              IN  IF ~InterpOK(nm)
                  THEN [acc EXCEPT !.exc = "InterpolationSyntaxError"]
                  ELSE IF pl.exc # "none" THEN [acc EXCEPT !.exc = pl.exc]
                  ELSE LoadSections(Tail(sections),
                         [acc EXCEPT !.created =
                             Append(acc.created, [address |-> s.sname,
                                                  name |-> Interp(nm),
                                                  plugs |-> pl.plugs])])

load_devices(cfg) == LoadSections(cfg, [created |-> <<>>, skipped |-> 0, exc |-> "none"])

(***************************************************************************)
(* PlugMaster, Device and Plug (package pypwrctrl)                         *)
(***************************************************************************)
\* PlugMaster(pin, pout, user, password)
NewMaster(pin, pout, user, password) ==
    [pin |-> pin, pout |-> pout, user |-> user, password |-> password,
     devices |-> <<>>]

HasAddress(devices, address) ==
    \E i \in 1..Len(devices) : devices[i].address = address

\* create_device(address, name, plug_defs): plugs start in state Unknown
NewDevice(address, name, plug_defs) ==
    [address |-> address, name |-> name,
     plugs |-> [j \in 1..Len(plug_defs) |->
                  [index |-> plug_defs[j].index, name |-> plug_defs[j].name,
                   state |-> "Unknown"]]]

\* the devices after the create_device calls of a load, in call order, and
\* the DuplicateAddress error of the first call that repeats an address
RECURSIVE CreateDevices(_, _)
CreateDevices(devices, calls) ==
    IF calls = <<>> THEN [devices |-> devices, exc |-> "none"]
    ELSE IF HasAddress(devices, Head(calls).address)
         THEN [devices |-> devices, exc |-> "DuplicateAddress"]
    ELSE CreateDevices(Append(devices, NewDevice(Head(calls).address, Head(calls).name,
                                                  Head(calls).plugs)),
                       Tail(calls))

\* matches(pattern, candidate): case-insensitive substring
Matches(pattern, candidate) ==
    \E i \in 0..(Len(candidate) - Len(pattern)) :
        SubSeq(Lower(candidate), i + 1, i + Len(pattern)) = Lower(pattern)

\* Device.search_plug(pattern); a plug is <<device position, plug position>>
DeviceSearchPlug(m, d, pattern) ==
    {<<d, j>> : j \in {k \in 1..Len(m.devices[d].plugs) :
                          Matches(pattern, m.devices[d].plugs[k].name)}}

\* PlugMaster.search_device(pattern); a device is its position
SearchDevice(m, pattern) ==
    {d \in 1..Len(m.devices) :
        Matches(pattern, m.devices[d].name) \/ Matches(pattern, m.devices[d].address)}

\* PlugMaster.search_plug(pattern)
SearchPlug(m, pattern) ==
    UNION {DeviceSearchPlug(m, d, pattern) : d \in 1..Len(m.devices)}

\* Plug.switch(state) on every plug of ok: the in-memory state follows
SwitchStates(m, ok, state) ==
    [m EXCEPT !.devices =
        [d \in 1..Len(m.devices) |->
            [m.devices[d] EXCEPT !.plugs =
                [j \in 1..Len(m.devices[d].plugs) |->
                    IF <<d, j>> \in ok
                    THEN [m.devices[d].plugs[j] EXCEPT !.state = state]
                    ELSE m.devices[d].plugs[j]]]]]

(***************************************************************************)
(* Handlers                                                                *)
(***************************************************************************)
Line(msg, n, m) == [msg |-> msg, devices |-> n, plugs |-> m]

Say(msg) == Line(msg, 0, 0)

\* print_master's return value; the lines it prints per device are not kept
RECURSIVE PlugCount(_)
PlugCount(devices) ==
    IF devices = <<>> THEN 0
    ELSE Len(Head(devices).plugs) + PlugCount(Tail(devices))

print_master(m) == [device_count |-> Len(m.devices), plug_count |-> PlugCount(m.devices)]

\* switch: the plugs the arguments resolve to (called with one or two)
SwitchScopedAll(m, args) == SearchPlug(m, args[Len(args)])

SwitchResolve(m, args) ==
    IF Len(args) = 1 THEN SearchPlug(m, args[1])
    ELSE UNION {DeviceSearchPlug(m, d, args[2]) : d \in SearchDevice(m, args[1])}

\* switch: which branch the argument count takes
SwitchArityLoose(args) ==
    IF Len(args) = 0 THEN "few" ELSE IF Len(args) = 1 THEN "one" ELSE "two"

SwitchArity(args) ==
    IF Len(args) = 0 THEN "few"
    ELSE IF Len(args) = 1 THEN "one"
    ELSE IF Len(args) = 2 THEN "two"
    ELSE "many"

\* reset: which branch the argument count takes
ResetArity(args) ==
    IF Len(args) = 0 THEN "few" ELSE IF Len(args) = 1 THEN "one" ELSE "many"

\* the test for an empty resolution
NoMatchNever(targets) == FALSE

NoMatch(targets) == Cardinality(targets) = 0

\* "for x in targets: x.act()": the targets are visited in the set's
\* iteration order and the first call that raises ends the loop. A run is
\* the set of targets the call was invoked on and the one that raised.
LoopRunsOne(targets) ==
    {[invoked |-> {t}, failed |-> F] : t \in {CHOOSE x \in targets : TRUE},
                                      F \in {{}, {CHOOSE x \in targets : TRUE}}}

LoopRuns(targets) ==
    {[invoked |-> targets, failed |-> {}]} \cup
    {[invoked |-> S \cup {f}, failed |-> {f}] :
        <<S, f>> \in {p \in (SUBSET targets) \X targets : p[2] \notin p[1]}}

\* parser.set(section, key, value) on the options of a section
SetOption(opts, key, value) ==
    IF \E j \in 1..Len(opts) : opts[j].key = key
    THEN [j \in 1..Len(opts) |->
            IF opts[j].key = key THEN [key |-> key, value |-> value] ELSE opts[j]]
    ELSE Append(opts, [key |-> key, value |-> value])

RECURSIVE SavePlugs(_, _)
SavePlugs(plugs, opts) ==
    IF plugs = <<>> THEN [exc |-> "none", opts |-> opts]
    ELSE IF ~SetOK(Head(plugs).name) THEN [exc |-> "ValueError", opts |-> opts]
    ELSE SavePlugs(Tail(plugs),
                   SetOption(opts, PLUG_PREFIX \o StrInt(Head(plugs).index),
                             Head(plugs).name))

RECURSIVE SaveDevices(_, _)
SaveDevices(devices, parser) ==
    IF devices = <<>> THEN [exc |-> "none", parser |-> parser]
    ELSE LET d == Head(devices) IN
         IF HasSection(parser, d.address)
         THEN [exc |-> "DuplicateSectionError", parser |-> parser]
         ELSE IF ~SetOK(d.name) THEN [exc |-> "ValueError", parser |-> parser]
         ELSE LET pl == SavePlugs(d.plugs, <<[key |-> K_name, value |-> d.name]>>)
              IN  IF pl.exc # "none" THEN [exc |-> pl.exc, parser |-> parser]
                  ELSE SaveDevices(Tail(devices),
                                   Append(parser, [sname |-> d.address, opts |-> pl.opts]))

\* save, up to the open(): the parser filled from the master
GeneralOf(m) ==
    [sname |-> GENERAL_SECTION,
     opts |-> <<[key |-> K_user, value |-> m.user],
                [key |-> K_password, value |-> m.password],
                [key |-> K_pin, value |-> StrInt(m.pin)],
                [key |-> K_pout, value |-> StrInt(m.pout)]>>]

SaveParser(m) ==
    IF ~SetOK(m.user) \/ ~SetOK(m.password)
    THEN [exc |-> "ValueError", parser |-> <<>>]
    ELSE SaveDevices(m.devices, <<GeneralOf(m)>>)

(***************************************************************************)
(* main: defaults, options, population                                     *)
(***************************************************************************)
\* config.get(GENERAL_SECTION, option, fallback=...)
GetFallback(cfg, option, fallback) ==
    IF ~HasOption(cfg, GENERAL_SECTION, option) THEN [exc |-> "none", value |-> fallback]
    ELSE IF ~InterpOK(RawGet(cfg, GENERAL_SECTION, option))
         THEN [exc |-> "InterpolationSyntaxError", value |-> fallback]
    ELSE [exc |-> "none", value |-> Interp(RawGet(cfg, GENERAL_SECTION, option))]

\* config.getint(GENERAL_SECTION, option, fallback=...)
GetIntFallback(cfg, option, fallback) ==
    LET g == GetFallback(cfg, option, StrInt(fallback)) IN
    IF g.exc # "none" THEN [exc |-> g.exc, value |-> fallback]
    ELSE IF ~IntOK(g.value) THEN [exc |-> "ValueError", value |-> fallback]
    ELSE [exc |-> "none", value |-> IntVal(g.value)]

\* the four defaults, and the first exception raised computing them
Defaults(cfg) ==
    LET u == GetFallback(cfg, K_user, FallbackUser)
        p == GetFallback(cfg, K_password, FallbackPassword)
        i == GetIntFallback(cfg, K_pin, FallbackPin)
        o == GetIntFallback(cfg, K_pout, FallbackPout)
    IN  [exc |-> IF u.exc # "none" THEN u.exc
                 ELSE IF p.exc # "none" THEN p.exc
                 ELSE IF i.exc # "none" THEN i.exc ELSE o.exc,
         user |-> u.value, password |-> p.value, pin |-> i.value, pout |-> o.value]

Commands == {"on", "off", "save", "show", "reset"}

\* "not options.discover and command != 'save'"
ShouldLoadAlways(opts, cmd) == cmd # "save"

ShouldLoadOnSave(opts, cmd) == ~opts.discover

ShouldLoad(opts, cmd) == ~opts.discover /\ cmd # "save"

(***************************************************************************)
(* Inputs: configuration files, command lines, networks                    *)
(***************************************************************************)
A_50 == <<"1", "9", "2", ".", "1", "6", "8", ".", "1", ".", "5", "0">>
A_51 == <<"1", "9", "2", ".", "1", "6", "8", ".", "1", ".", "5", "1">>
T_Strip1 == <<"S", "t", "r", "i", "p", "1">>
T_Office == <<"O", "f", "f", "i", "c", "e">>
T_Lab == <<"L", "a", "b">>
T_Lamp == <<"L", "a", "m", "p">>
T_Fan == <<"F", "a", "n">>
T_Desk == <<"D", "e", "s", "k">>
T_OfficeLamp == <<"O", "f", "f", "i", "c", "e", " ", "l", "a", "m", "p">>
T_Dimmer == <<"5", "0", "%", " ", "d", "i", "m", "m", "e", "r">>
T_Padded == <<" ", "F", "a", "n">>
T_root == <<"r", "o", "o", "t">>
T_secret == <<"p", "%", "w">>
T_badint == <<"8", "o">>
T_admin == <<"a", "d", "m", "i", "n">>
T_anel == <<"a", "n", "e", "l">>
P_desk == <<"d", "e", "s", "k">>
P_office == <<"o", "f", "f", "i", "c", "e">>
P_192 == <<"1", "9", "2">>
K_plug_1 == <<"p", "l", "u", "g", "_", "1">>
K_plug_2 == <<"p", "l", "u", "g", "_", "2">>
K_plug_10 == <<"p", "l", "u", "g", "_", "1", "0">>
K_plug_1x == <<"p", "l", "u", "g", "_", "1", "x">>
K_xplug_1 == <<"x", "p", "l", "u", "g", "_", "1">>
K_comment == <<"c", "o", "m", "m", "e", "n", "t">>

Opt(key, raw) == [key |-> key, raw |-> raw]

Section(sname, opts) == [sname |-> sname, opts |-> opts]

General(user, password, pin, pout) ==
    Section(GENERAL_SECTION, <<Opt(K_user, user), Opt(K_password, password),
                               Opt(K_pin, pin), Opt(K_pout, pout)>>)

\* no file, or an empty one
F_none == <<>>

\* the scenario of the specification: Strip1 with Lamp and Fan
F_strip ==
    <<General(T_admin, T_anel, StrInt(FallbackPin), StrInt(FallbackPout)),
      Section(A_50, <<Opt(K_name, T_Strip1), Opt(K_plug_1, T_Lamp), Opt(K_plug_2, T_Fan)>>)>>

\* two devices that both have a plug named Desk
F_two ==
    <<General(T_root, T_anel, StrInt(80), StrInt(81)),
      Section(A_50, <<Opt(K_name, T_Office), Opt(K_plug_2, T_OfficeLamp),
                      Opt(K_plug_1, T_Desk)>>),
      Section(A_51, <<Opt(K_name, T_Lab), Opt(K_plug_1, T_Desk)>>)>>

\* a section without name, a comment key, and a key that begins like a plug key
F_odd ==
    <<Section(A_51, <<Opt(K_plug_1, T_Desk)>>),
      Section(A_50, <<Opt(K_name, T_Lab), Opt(K_comment, T_Fan), Opt(K_plug_2, T_Fan),
                      Opt(K_plug_1x, T_Desk)>>)>>

\* a port that is no number
F_badpin == <<General(T_admin, T_anel, T_badint, StrInt(FallbackPout))>>

SessionFiles == {F_none, F_strip, F_two, F_odd, F_badpin}

\* sequences without repetition of at most n elements of S
RECURSIVE Arrangements(_, _)
Arrangements(S, n) ==
    IF n = 0 THEN {<<>>}
    ELSE Arrangements(S, n - 1) \cup
         {Append(q, x) : <<q, x>> \in
             {p \in Arrangements(S, n - 1) \X S :
                 Len(p[1]) = n - 1 /\ \A i \in 1..Len(p[1]) : p[1][i] # p[2]}}

PlugKeys == {K_plug_1, K_plug_2, K_plug_10, K_plug_1x, K_xplug_1}

\* the value written for a key of the codec files
ValueFor(key) ==
    IF key = K_plug_1 THEN T_Lamp ELSE IF key = K_plug_2 THEN T_Fan ELSE T_Desk

\* a device section: one of the given name entries, then at most n plug-like
\* keys in any order
DeviceSections(address, names, n) ==
    {Section(address, nm \o [j \in 1..Len(ks) |-> Opt(ks[j], ValueFor(ks[j]))]) :
        <<nm, ks>> \in names \X Arrangements(PlugKeys, n)}

\* no name, a name, a name with a bare "%"
NameEntries == {<<>>, <<Opt(K_name, T_Lab)>>, <<Opt(K_name, T_Dimmer)>>}

DeviceLists ==
    {<<>>} \cup {<<s>> : s \in DeviceSections(A_50, NameEntries, MaxOpts)}
           \cup {<<s, t>> : <<s, t>> \in
                    DeviceSections(A_50, NameEntries, MaxOpts)
                    \X DeviceSections(A_51, {<<>>, <<Opt(K_name, T_Strip1)>>}, MaxOpts - 1)}

G_default == General(T_admin, T_anel, StrInt(FallbackPin), StrInt(FallbackPout))

\* with and without a general section in front
CodecFiles == DeviceLists \cup {<<G_default>> \o l : l \in DeviceLists}

\* -u, -p, -i, -o: absent (<<>>) or given (<<value>>)
NoCreds == [user |-> <<>>, password |-> <<>>, pin |-> <<>>, pout |-> <<>>]

CredChoices ==
    {NoCreds,
     [user |-> <<T_root>>, password |-> <<T_secret>>, pin |-> <<8080>>, pout |-> <<8081>>]}

Patterns == {P_desk, P_office, P_192}

RECURSIVE ArgLists(_)
ArgLists(n) ==
    IF n = 0 THEN {<<>>}
    ELSE ArgLists(n - 1) \cup
         {Append(q, x) : <<q, x>> \in {p \in ArgLists(n - 1) \X Patterns : Len(p[1]) = n - 1}}

\* the command lines: "" is no command at all, "bogus" an unknown one; -l is
\* tried without command arguments only
Invocations ==
    {inv \in [list : BOOLEAN, discover : BOOLEAN, creds : CredChoices,
              command : Commands \cup {"", "bogus"}, rest : ArgLists(MaxArgs)] :
        (inv.command = "" \/ inv.list) => inv.rest = <<>>}

\* "show" without options
CodecInvocations ==
    {[list |-> FALSE, discover |-> FALSE, creds |-> NoCreds, command |-> "show",
      rest |-> <<>>]}

Plug(index, name, state) == [index |-> index, name |-> name, state |-> state]

Device(address, name, plugs) == [address |-> address, name |-> name, plugs |-> plugs]

\* what discover() may find on the network
N_none == <<>>

N_two ==
    <<Device(A_50, T_Office, <<Plug(1, T_Desk, "Off"), Plug(2, T_OfficeLamp, "Unknown")>>),
      Device(A_51, T_Lab, <<Plug(1, T_Desk, "On")>>)>>

N_odd ==
    <<Device(A_51, T_Lab, <<Plug(3, T_Dimmer, "Unknown"), Plug(1, T_Padded, "Unknown")>>)>>

Networks == {N_none, N_two, N_odd}

(***************************************************************************)
(* The run of main()                                                       *)
(***************************************************************************)
NoOptions ==
    [list |-> FALSE, discover |-> FALSE, user |-> <<>>, password |-> <<>>,
     pin |-> 0, pout |-> 0]

NoMaster == NewMaster(0, 0, <<>>, <<>>)

InitRun ==
    /\ pc = "start"
    /\ config = <<>>
    /\ options = NoOptions
    /\ command = ""
    /\ rest = <<>>
    /\ master = NoMaster
    /\ rc = -1
    /\ exc = "none"
    /\ out = <<>>
    /\ events = <<>>
    /\ switched = {}
    /\ resets = {}
    /\ created = <<>>

Init == file \in SessionFiles /\ InitRun

InitCodec == file \in CodecFiles /\ InitRun

\* an option of the command line, or its default
Given(opt, default) == IF opt = <<>> THEN default ELSE opt[1]

\* the process ends: return value or uncaught exception
Exit(code, raised) == pc' = "done" /\ rc' = code /\ exc' = raised

\* lines 170-204: read the file, compute the defaults, parse the command line
Startup(invocations) ==
    /\ pc = "start"
    /\ config' = ConfigRead(file)
    /\ LET d == Defaults(ConfigRead(file)) IN
       IF d.exc # "none"
       THEN /\ Exit(1, d.exc)
            /\ UNCHANGED <<options, command, rest>>
       ELSE \E inv \in invocations :
             /\ options' = [list |-> inv.list, discover |-> inv.discover,
                            user |-> Given(inv.creds.user, d.user),
                            password |-> Given(inv.creds.password, d.password),
                            pin |-> Given(inv.creds.pin, d.pin),
                            pout |-> Given(inv.creds.pout, d.pout)]
             /\ command' = inv.command
             /\ rest' = inv.rest
             /\ pc' = "parsed"
             /\ UNCHANGED <<rc, exc>>
    /\ UNCHANGED <<file, master, out, events, switched, resets, created>>

\* lines 207-213
ListCommands ==
    /\ pc = "parsed"
    /\ options.list
    /\ out' = Append(out, Say("The following commands are available:"))
    /\ Exit(0, "none")
    /\ UNCHANGED <<file, config, options, command, rest, master, events, switched,
                   resets, created>>

\* lines 216-218
CommandMissing ==
    /\ pc = "parsed"
    /\ ~options.list
    /\ command = ""
    /\ out' = Append(out, Say("Command missing, please add one"))
    /\ Exit(1, "none")
    /\ UNCHANGED <<file, config, options, command, rest, master, events, switched,
                   resets, created>>

\* lines 225-227
UnknownCommand ==
    /\ pc = "parsed"
    /\ ~options.list
    /\ command # ""
    /\ command \notin Commands
    /\ out' = Append(out, Say("Unknown command, sorry"))
    /\ Exit(1, "none")
    /\ UNCHANGED <<file, config, options, command, rest, master, events, switched,
                   resets, created>>

\* line 229
CreateMaster ==
    /\ pc = "parsed"
    /\ ~options.list
    /\ command \in Commands
    /\ master' = NewMaster(options.pin, options.pout, options.user, options.password)
    /\ pc' = "master"
    /\ UNCHANGED <<file, config, options, command, rest, rc, exc, out, events, switched,
                   resets, created>>

\* lines 232-233
LoadStep ==
    /\ pc = "master"
    /\ IF ShouldLoad(options, command)
       THEN LET r == load_devices(config)
                c == CreateDevices(master.devices, r.created)
                raised == IF r.exc # "none" THEN r.exc ELSE c.exc
            IN  /\ created' = r.created
                /\ master' = [master EXCEPT !.devices = c.devices]
                /\ out' = out \o [i \in 1..r.skipped |->
                             Say("Device without name in configuration, skipping")]
                /\ events' = Append(events, "load")
                /\ IF raised # "none"
                   THEN Exit(1, raised)
                   ELSE pc' = "loaded" /\ UNCHANGED <<rc, exc>>
       ELSE /\ pc' = "loaded"
            /\ UNCHANGED <<created, master, out, events, rc, exc>>
    /\ UNCHANGED <<file, config, options, command, rest, switched, resets>>

\* discover(): the devices found join the registry, one per address
RECURSIVE Merge(_, _)
Merge(devices, found) ==
    IF found = <<>> THEN devices
    ELSE IF HasAddress(devices, Head(found).address) THEN Merge(devices, Tail(found))
    ELSE Merge(Append(devices, Head(found)), Tail(found))

\* lines 235-236
DiscoverStep ==
    /\ pc = "loaded"
    /\ IF options.discover
       THEN \E net \in Networks :
              /\ master' = [master EXCEPT !.devices = Merge(master.devices, net)]
              /\ events' = Append(events, "discover")
       ELSE UNCHANGED <<master, events>>
    /\ pc' = "populated"
    /\ UNCHANGED <<file, config, options, command, rest, rc, exc, out, switched, resets,
                   created>>

\* lines 61-84, called for "on" with True and for "off" with False
SwitchCmd ==
    /\ pc = "populated"
    /\ command \in {"on", "off"}
    /\ events' = Append(events, "handler")
    /\ LET state == IF command = "on" THEN "On" ELSE "Off"
           arity == SwitchArity(rest)
           plugs == SwitchResolve(master, rest)
       IN  IF arity = "few"
           THEN /\ out' = Append(out, Say("Not enough arguments. Please add at least a plug name."))
                /\ Exit(1, "none")
                /\ UNCHANGED <<master, switched>>
           ELSE IF arity = "many"
           THEN /\ out' = Append(out, Say("Too many arguments. Only plug name and optionally device name expected."))
                /\ Exit(1, "none")
                /\ UNCHANGED <<master, switched>>
           ELSE IF NoMatch(plugs)
           THEN /\ out' = Append(out, Say("No matching plugs found, sorry"))
                /\ Exit(1, "none")
                /\ UNCHANGED <<master, switched>>
           ELSE \E run \in LoopRuns(plugs) :
                  /\ out' = IF Cardinality(plugs) > 1
                            THEN Append(out, Say("Warning: Setting multiple matching plugs"))
                            ELSE out
                  /\ switched' = run.invoked
                  /\ master' = SwitchStates(master, run.invoked \ run.failed, state)
                  /\ IF run.failed = {} THEN Exit(0, "none") ELSE Exit(1, "NetworkFailure")
    /\ UNCHANGED <<file, config, options, command, rest, resets, created>>

\* lines 86-103
ResetCmd ==
    /\ pc = "populated"
    /\ command = "reset"
    /\ events' = Append(events, "handler")
    /\ LET arity == ResetArity(rest)
           devices == SearchDevice(master, rest[1])
       IN  IF arity = "few"
           THEN /\ out' = Append(out, Say("Not enough arguments. Please add the device name."))
                /\ Exit(1, "none")
                /\ UNCHANGED resets
           ELSE IF arity = "many"
           THEN /\ out' = Append(out, Say("Too many arguments. Only device name expected."))
                /\ Exit(1, "none")
                /\ UNCHANGED resets
           ELSE IF NoMatch(devices)
           THEN /\ out' = Append(out, Say("No matching devices found, sorry"))
                /\ Exit(1, "none")
                /\ UNCHANGED resets
           ELSE \E run \in LoopRuns(devices) :
                  /\ out' = IF Cardinality(devices) > 1
                            THEN Append(out, Say("Warning: Resetting multiple matching devices"))
                            ELSE out
                  /\ resets' = run.invoked
                  /\ IF run.failed = {} THEN Exit(0, "none") ELSE Exit(1, "NetworkFailure")
    /\ UNCHANGED <<file, config, options, command, rest, master, switched, created>>

\* lines 105-130
SaveCmd ==
    /\ pc = "populated"
    /\ command = "save"
    /\ LET s == SaveParser(master)
           n == print_master(master)
       IN  IF s.exc # "none"
           THEN /\ Exit(1, s.exc)
                /\ events' = Append(events, "handler")
                /\ UNCHANGED <<file, out>>
           ELSE /\ file' = ConfigWrite(s.parser)
                /\ events' = events \o <<"handler", "write">>
                /\ out' = Append(out,
                            IF n.device_count # 0
                            THEN Line("Saved config with {} device(s) and {} plugs",
                                      n.device_count, n.plug_count)
                            ELSE Say("Saved config without any devices"))
                /\ Exit(0, "none")
    /\ UNCHANGED <<config, options, command, rest, master, switched, resets, created>>

\* lines 132-135
ShowCmd ==
    /\ pc = "populated"
    /\ command = "show"
    /\ events' = Append(events, "handler")
    /\ LET n == print_master(master)
       IN  out' = Append(out, Line("There are {} device(s) and {} plug(s)",
                                   n.device_count, n.plug_count))
    /\ Exit(0, "none")
    /\ UNCHANGED <<file, config, options, command, rest, master, switched, resets,
                   created>>

Next ==
    \/ Startup(Invocations)
    \/ ListCommands
    \/ CommandMissing
    \/ UnknownCommand
    \/ CreateMaster
    \/ LoadStep
    \/ DiscoverStep
    \/ SwitchCmd
    \/ ResetCmd
    \/ SaveCmd
    \/ ShowCmd

Spec == Init /\ [][Next]_vars

\* the codec alone: every file of CodecFiles is loaded by a "show" run
NextCodec ==
    \/ Startup(CodecInvocations)
    \/ CreateMaster
    \/ LoadStep

SpecCodec == InitCodec /\ [][NextCodec]_vars

(***************************************************************************)
(* Properties                                                              *)
(***************************************************************************)
Did(e) == \E i \in 1..Len(events) : events[i] = e

Count(e) == Cardinality({i \in 1..Len(events) : events[i] = e})

Printed(msg) == \E i \in 1..Len(out) : out[i].msg = msg

\* the data the configuration keeps of a registry: every plug state Unknown
Forgotten(devices) ==
    [d \in 1..Len(devices) |->
        NewDevice(devices[d].address, devices[d].name,
                  [j \in 1..Len(devices[d].plugs) |->
                      [index |-> devices[d].plugs[j].index,
                       name |-> devices[d].plugs[j].name]])]

ValidRegistry(devices) ==
    /\ \A d, e \in 1..Len(devices) : devices[d].address = devices[e].address => d = e
    /\ \A d \in 1..Len(devices) : \A j, k \in 1..Len(devices[d].plugs) :
          devices[d].plugs[j].index = devices[d].plugs[k].index => j = k

\* what a later run gets from file f: the defaults of main and the devices
\* of load_devices
Reloaded(f) ==
    LET cfg == ConfigRead(f)
        d == Defaults(cfg)
        l == load_devices(cfg)
    IN  [exc |-> IF d.exc # "none" THEN d.exc ELSE l.exc,
         user |-> d.user, password |-> d.password, pin |-> d.pin, pout |-> d.pout,
         devices |-> CreateDevices(<<>>, l.created).devices]

\* C1: once save() has run on a registry with unique addresses and unique
\* plug indices per device, loading the file gives back the registry's user,
\* password, pin, pout and, for every device, its address, name and
\* (index, name) list, no device more or less, every plug state Unknown.
C1_RoundTrip ==
    (pc = "done" /\ command = "save" /\ Did("handler") /\ ValidRegistry(master.devices))
    => /\ Reloaded(file).exc = "none"
       /\ Reloaded(file).user = master.user
       /\ Reloaded(file).password = master.password
       /\ Reloaded(file).pin = master.pin
       /\ Reloaded(file).pout = master.pout
       /\ Reloaded(file).devices = Forgotten(master.devices)

\* every device section has a name and, besides it, only plug_<digits> keys
WellFormed(cfg) ==
    /\ HasSection(cfg, GENERAL_SECTION)
    /\ \E i \in 1..Len(cfg) : cfg[i].sname # GENERAL_SECTION
    /\ \A i \in 1..Len(cfg) : cfg[i].sname # GENERAL_SECTION =>
          /\ \E j \in 1..Len(cfg[i].opts) : cfg[i].opts[j].key = K_name
          /\ \A j \in 1..Len(cfg[i].opts) :
                \/ cfg[i].opts[j].key = K_name
                \/ /\ StartsWith(cfg[i].opts[j].key, PLUG_PREFIX)
                   /\ IntOK(KeySuffix(cfg[i].opts[j].key))

DeviceSectionsOf(cfg) == SelectSeq(cfg, LAMBDA sec : sec.sname # GENERAL_SECTION)

\* C2 (as claimed): a run of the save command without discovery that starts
\* from a file with a general section and named device sections with
\* plug_<index> entries leaves the file with the same device sections and
\* plug entries.
C2_LoadSaveIdentity ==
    (pc = "done" /\ command = "save" /\ ~options.discover /\ rc = 0 /\ WellFormed(config))
    => DeviceSectionsOf(ConfigRead(file)) = DeviceSectionsOf(config)

\* C2 (amended): a run of the save command without discovery never loads the
\* configured devices; when it has written the file, the file holds the
\* general section alone, with the user, password, pin and pout of the run.
C2_SaveWithoutDiscoveryDropsDevices ==
    (pc = "done" /\ command = "save" /\ ~options.discover /\ Did("handler"))
    => /\ ~Did("load")
       /\ master.devices = <<>>
       /\ Did("write") =>
             /\ Len(file) = 1
             /\ file[1].sname = GENERAL_SECTION
             /\ Reloaded(file).user = options.user
             /\ Reloaded(file).password = options.password
             /\ Reloaded(file).pin = options.pin
             /\ Reloaded(file).pout = options.pout

\* C2 witness: the file held device sections, and the save command without
\* discovery has replaced it by the general section.
C2_Witness ==
    /\ pc = "done" /\ command = "save" /\ ~options.discover /\ Did("write")
    /\ WellFormed(config)
    /\ Len(file) = 1

SwitchRan == pc = "done" /\ Did("handler") /\ command \in {"on", "off"}

ResetRan == pc = "done" /\ Did("handler") /\ command = "reset"

Commanded == IF command = "on" THEN "On" ELSE "Off"

C4_EmptyResolutionNoAction ==
    [][/\ (pc = "populated" /\ command \in {"on", "off"}
              /\ SwitchArity(rest) \in {"one", "two"}
              /\ SwitchResolve(master, rest) = {})
          => /\ pc' = "done" /\ rc' = 1 /\ exc' = "none"
             /\ out' = Append(out, Say("No matching plugs found, sorry"))
             /\ switched' = {} /\ resets' = {}
             /\ master' = master
       /\ (pc = "populated" /\ command = "reset" /\ ResetArity(rest) = "one"
              /\ SearchDevice(master, rest[1]) = {})
          => /\ pc' = "done" /\ rc' = 1 /\ exc' = "none"
             /\ out' = Append(out, Say("No matching devices found, sorry"))
             /\ switched' = {} /\ resets' = {}
             /\ master' = master]_vars

\* C4 witness: an on command on a registry with plugs matched none of them
\* and ended with exit status 1.
C4_Witness ==
    /\ SwitchRan /\ command = "on"
    /\ SwitchArity(rest) \in {"one", "two"}
    /\ PlugCount(master.devices) > 0
    /\ SwitchResolve(master, rest) = {}
    /\ rc = 1

\* C5: on/off with no argument or with three or more, and reset with no
\* argument or with two or more, end with a non-zero exit status, switch no
\* plug and reset no device.
C5_ArityGate ==
    /\ (SwitchRan /\ (Len(rest) = 0 \/ Len(rest) >= 3))
       => (rc # 0 /\ switched = {} /\ resets = {})
    /\ (ResetRan /\ (Len(rest) = 0 \/ Len(rest) >= 2))
       => (rc # 0 /\ switched = {} /\ resets = {})

\* C5 witness: an on command with three arguments, the first two of which
\* would resolve to plugs, has ended with exit status 1.
C5_Witness ==
    /\ SwitchRan /\ Len(rest) = 3 /\ rc = 1
    /\ UNION {DeviceSearchPlug(master, d, rest[2]) : d \in SearchDevice(master, rest[1])} # {}

AllPlugs(m) ==
    UNION {{<<d, j>> : j \in 1..Len(m.devices[d].plugs)} : d \in 1..Len(m.devices)}

\* the plugs a device-qualified command is scoped to
Scoped(m, devicePattern, plugPattern) ==
    {p \in AllPlugs(m) :
        /\ Matches(devicePattern, m.devices[p[1]].name)
              \/ Matches(devicePattern, m.devices[p[1]].address)
        /\ Matches(plugPattern, m.devices[p[1]].plugs[p[2]].name)}

Unscoped(m, plugPattern) ==
    {p \in AllPlugs(m) : Matches(plugPattern, m.devices[p[1]].plugs[p[2]].name)}

LoadRan == Did("load")

\* "plug_" followed by one or more decimal digits and nothing else
FullPlugKey(key) ==
    /\ Len(key) > Len(PLUG_PREFIX)
    /\ \A i \in 1..Len(PLUG_PREFIX) : key[i] = PLUG_PREFIX[i]
    /\ \A i \in (Len(PLUG_PREFIX) + 1)..Len(key) : IsDigit(key[i])

\* the number written by the digits after the prefix
RECURSIVE Number(_, _)
Number(key, i) ==
    IF i = Len(PLUG_PREFIX) THEN 0 ELSE 10 * Number(key, i - 1) + DigitVal(key[i])

IsNamedDevice(sec) ==
    sec.sname # GENERAL_SECTION /\ \E j \in 1..Len(sec.opts) : sec.opts[j].key = K_name

IsNamelessDevice(sec) ==
    sec.sname # GENERAL_SECTION /\ ~\E j \in 1..Len(sec.opts) : sec.opts[j].key = K_name

NamedDevices(cfg) == SelectSeq(cfg, IsNamedDevice)

\* C7: the keys of a device section that give a plug are exactly the keys
\* "plug_" + digits, each giving the plug (number of the digits, value of the
\* key); every other key, also one that only begins like a plug key, gives no
\* plug and never makes the load fail.
C7_PlugKeySchema ==
    LoadRan =>
       /\ exc # "ValueError"
       /\ \A i \in 1..Len(created) :
             LET sec == SectionOf(config, created[i].address) IN
             {<<created[i].plugs[j].index, created[i].plugs[j].name>> :
                 j \in 1..Len(created[i].plugs)}
             = {<<Number(sec.opts[j].key, Len(sec.opts[j].key)), Interp(sec.opts[j].value)>> :
                 j \in {k \in 1..Len(sec.opts) : FullPlugKey(sec.opts[k].key)}}

PlugIndices(call) == [j \in 1..Len(call.plugs) |-> call.plugs[j].index]

Ascending(q) == \A j, k \in 1..Len(q) : j < k => q[j] <= q[k]

\* the plug keys of a section as the regular expression of load_devices
\* takes them, in the order of the configuration
TakenKeys(sec) ==
    SelectSeq([j \in 1..Len(sec.opts) |-> sec.opts[j].key],
              LAMBDA key : /\ Len(key) > Len(PLUG_PREFIX)
                           /\ SubSeq(key, 1, Len(PLUG_PREFIX)) = PLUG_PREFIX
                           /\ IsDigit(key[Len(PLUG_PREFIX) + 1]))

\* C8 (as claimed): the (index, name) list passed to create_device is sorted
\* by index, ascending, whatever the order of the keys in the configuration.
C8_SortedByIndex ==
    LoadRan => \A i \in 1..Len(created) : Ascending(PlugIndices(created[i]))

\* C8 (amended): the (index, name) list passed to create_device is in the
\* order of the plug keys in the configuration section; it is not sorted.
C8_KeyOrder ==
    LoadRan => \A i \in 1..Len(created) :
        LET keys == TakenKeys(SectionOf(config, created[i].address)) IN
        /\ Len(created[i].plugs) = Len(keys)
        /\ \A j \in 1..Len(keys) :
              created[i].plugs[j].index = Number(keys[j], Len(keys[j]))

\* C8 witness: a section with plug_10 before plug_2 was loaded and the list
\* passed to create_device has 10 before 2.
C8_Witness ==
    /\ LoadRan /\ exc = "none"
    /\ \E i \in 1..Len(created) : PlugIndices(created[i]) = <<10, 2>>

\* C9: load creates no device for a section without name, prints the
\* diagnostic for it, and creates a device for every other section but the
\* general one, wherever the section stands.
C9_NamelessSkipped ==
    LoadRan =>
       /\ [i \in 1..Len(created) |-> created[i].address]
             = [i \in 1..Len(NamedDevices(config)) |-> NamedDevices(config)[i].sname]
       /\ [i \in 1..Len(master.devices) |-> master.devices[i].address]
             = [i \in 1..Len(NamedDevices(config)) |-> NamedDevices(config)[i].sname]
       /\ Len(SelectSeq(out, LAMBDA l :
                 l.msg = "Device without name in configuration, skipping"))
             = Len(SelectSeq(config, IsNamelessDevice))

Position(e) == CHOOSE i \in 1..Len(events) : events[i] = e

\* C10: in every run the registry is empty when it is created and is
\* populated at most once, by load or by discover and never by both; the
\* population precedes the handler, and with it every switch, reset, show and
\* save; the file is written at most once, by the save command only, and is
\* left as it was by every other step.
C10_SessionOrder ==
    [][/\ pc' = "master" => master'.devices = <<>>
       /\ Count("load")' + Count("discover")' <= 1
       /\ Count("handler")' <= 1
       /\ Count("write")' <= 1
       /\ Forgotten(master'.devices) # Forgotten(master.devices) =>
             /\ pc \in {"parsed", "master", "loaded"}
             /\ ~Did("handler")'
             /\ pc = "master" => (Did("load")' /\ ~Did("load") /\ ~options.discover)
             /\ pc = "loaded" => (Did("discover")' /\ ~Did("discover") /\ options.discover)
       /\ Did("handler")' => (pc' = "done" /\ pc \in {"populated", "done"})
       /\ (Did("handler")' /\ Did("load")') => Position("load")' < Position("handler")'
       /\ (Did("handler")' /\ Did("discover")') => Position("discover")' < Position("handler")'
       /\ (switched' # {} \/ resets' # {}) => Did("handler")'
       /\ (switched' # switched \/ resets' # resets) => pc = "populated"
       /\ file' # file => (command = "save" /\ pc = "populated" /\ Did("write")' /\ ~Did("write"))
       /\ Did("write")' => command' = "save"
      ]_vars

\* C10 witness: a run has discovered devices, then switched a plug, and the
\* file was not written.
C10_Witness ==
    /\ pc = "done" /\ events = <<"discover", "handler">>
    /\ switched # {}
    /\ Len(master.devices) > 0

====
